---- MODULE Spec2Model ----
(***************************************************************************)
(* Model of src/model/data/Node.js: the schema registry of node types      *)
(* (define / _defineSchema / _compileSchema / _compileDefintion /          *)
(* _unfoldedSchema / _extractDefaultProps), the constructor Node(props)    *)
(* with _checked, and the instance operations getTypeNames, isInstanceOf   *)
(* and toJSON.                                                             *)
(*                                                                         *)
(* JavaScript objects have identity.  Field descriptors live in `heap`     *)
(* and arrays in `arrays`; a reference is an index into the sequence.      *)
(* A schema is an ordered list of <<name, descriptor reference>> (object   *)
(* keys iterate in insertion order).                                       *)
(*                                                                         *)
(*   cls     the defined classes, Node first: type, super, schema,         *)
(*           defaultProps, and decl, the declarations as they were handed  *)
(*           to define                                                     *)
(*   heap    the field descriptor objects                                  *)
(*   arrays  the content of the array objects                              *)
(*   nodes   the instances that are kept: class, own properties, and the   *)
(*           names the property bag gave                                   *)
(*   last    the last call: its arguments and the error thrown or the      *)
(*           instance returned                                             *)
(*                                                                         *)
(* The class links (NodeClass.super, the prototype of a constructor) are   *)
(* set by EventEmitter.extend, which is outside this file: a class made    *)
(* by Parent.extend(Child) has Parent as its super and as its prototype.   *)
(***************************************************************************)
EXTENDS Integers, Sequences, FiniteSets, TLC

VARIABLES cls, heap, arrays, nodes, last

vars == <<cls, heap, arrays, nodes, last>>

---------------------------------------------------------------------------
(* Bounds of the model                                                     *)

\* classes in the registry, the root Node included
MaxClasses == 3
\* instances kept alive
MaxNodes == 2
\* elements pushed onto the arrays, all together
MaxPush == 1

---------------------------------------------------------------------------
(* Values                                                                  *)

Val(k, v) == [k |-> k, v |-> v]

\* the JavaScript value undefined
Undefined == Val("undefined", 0)

Null == Val("null", 0)

\* a key that an object does not have (a property bag without the field,
\* an instance without the own property)
Absent == Val("absent", 0)

\* reading obj[name]: a key the object does not have reads as undefined
Read(obj, name) == IF obj[name] = Absent THEN Undefined ELSE obj[name]

\* typeof value (line 249)
TypeOf(value) ==
    CASE value.k = "string" -> "string"
      [] value.k = "boolean" -> "boolean"
      [] value.k = "number" -> "number"
      [] value.k = "undefined" -> "undefined"
      [] OTHER -> "object"

\* lodash isString / isBoolean / isNumber / isArray (lines 3-6)
isString(value) == value.k = "string"

isBoolean(value) == value.k = "boolean"

isNumber(value) == value.k = "number"

isArray(value) == value.k = "array"

\* lodash isObject (line 7): true of every value whose typeof is "object"
\* (null excepted) or "function"; an array is such a value
isObject(value) == value.k \in {"object", "array"}

---------------------------------------------------------------------------
(* Field descriptors                                                       *)

\* a declared type: a type name, or a JavaScript array of names
Scalar(t) == [arr |-> FALSE, v |-> <<t>>]

ArrayT(s) == [arr |-> TRUE, v |-> s]

\* the object literal { type: type } (line 176).  lit tells the objects
\* the caller wrote from those made while compiling
NewDesc(type) ==
    [type |-> type, hasDefault |-> FALSE, default |-> Undefined,
     optional |-> FALSE, notNull |-> FALSE, name |-> "", lit |-> FALSE]

\* definition[0] on a descriptor object (line 187): _compileSchema has
\* wrapped every string and array, so definition is a plain object and has
\* no property "0"
DefinitionAt0(definition) == "undefined"

\* _compileDefintion (lines 185-196) on the object at reference r
compileDefintion(h, r) ==
    LET definition == h[r] IN
    IF definition.type.arr /\ DefinitionAt0(definition) # "array"
    THEN [heap |-> [h EXCEPT ![r].type =
                        ArrayT(<<"array", Head(definition.type.v)>>)],
          ref |-> r]
    ELSE IF definition.type = Scalar("text")
    THEN [heap |-> Append(h, [NewDesc(Scalar("string")) EXCEPT
                                  !.hasDefault = TRUE,
                                  !.default = Val("string", 0)]),
          ref |-> Len(h) + 1]
    ELSE [heap |-> h, ref |-> r]

\* one iteration of the each() of _compileSchema (lines 171-180)
compileEntry(st, item) ==
    LET wrapped == IF item.form \in {"string", "array"}
                   THEN [heap |-> Append(st.heap, NewDesc(item.type)),
                         ref |-> Len(st.heap) + 1]
                   ELSE [heap |-> st.heap, ref |-> item.ref]
        c == compileDefintion(wrapped.heap, wrapped.ref)
    IN  [heap |-> [c.heap EXCEPT ![c.ref].name = item.name],
         schema |-> Append(st.schema, [name |-> item.name, ref |-> c.ref])]

RECURSIVE compileFrom(_, _, _)
compileFrom(st, items, i) ==
    IF i > Len(items) THEN st
    ELSE compileFrom(compileEntry(st, items[i]), items, i + 1)

\* _compileSchema (lines 168-183); the key 'type' is not among the items
compileSchema(h, items) ==
    compileFrom([heap |-> h, schema |-> <<>>], items, 1)

---------------------------------------------------------------------------
(* Schema inheritance                                                      *)

NoClass == 0

\* the class Node is the first of the registry
Root == 1

\* target[key] = value on an object with ordered keys
AssignKey(obj, e) ==
    IF \E i \in 1..Len(obj) : obj[i].name = e.name
    THEN [i \in 1..Len(obj) |-> IF obj[i].name = e.name THEN e ELSE obj[i]]
    ELSE Append(obj, e)

RECURSIVE AssignAll(_, _, _)
AssignAll(obj, source, i) ==
    IF i > Len(source) THEN obj
    ELSE AssignAll(AssignKey(obj, source[i]), source, i + 1)

\* lodash extend (line 212): each source in turn assigned onto the target
RECURSIVE extend(_, _, _)
extend(target, sources, i) ==
    IF i > Len(sources) THEN target
    ELSE extend(AssignAll(target, sources[i], 1), sources, i + 1)

\* the while loop of _unfoldedSchema (lines 201-210): clazz walks up the
\* prototype chain and the schema of each class met is put in front
RECURSIVE CollectSchemas(_, _, _)
CollectSchemas(classes, clazz, schemas) ==
    IF clazz = NoClass THEN schemas
    ELSE CollectSchemas(classes, classes[clazz].super,
                        <<classes[clazz].schema>> \o schemas)

\* _unfoldedSchema (lines 198-213) for a class whose parent is `parent`
unfoldedSchema(classes, parent, compiledSchema) ==
    extend(<<>>, CollectSchemas(classes, parent, <<compiledSchema>>), 1)

\* NodeClass.unfoldedSchema (line 216): no statement of the source assigns
\* this property (line 163 assigns NodeClass.schema), so the read yields
\* undefined and each() visits nothing
unfoldedSchemaProp(schema) == <<>>

RECURSIVE DefaultsFrom(_, _, _)
DefaultsFrom(h, unfolded, i) ==
    IF i > Len(unfolded) THEN <<>>
    ELSE (IF h[unfolded[i].ref].hasDefault
          THEN <<[name |-> unfolded[i].name,
                  value |-> h[unfolded[i].ref].default]>>
          ELSE <<>>) \o DefaultsFrom(h, unfolded, i + 1)

\* _extractDefaultProps (lines 215-224)
extractDefaultProps(h, schema) ==
    DefaultsFrom(h, unfoldedSchemaProp(schema), 1)

---------------------------------------------------------------------------
(* The type checker and the constructor                                    *)

\* the field names declarations and property bags draw from
FieldNames == {"id", "a", "b"}

NoError ==
    [kind |-> "none", name |-> "", expected |-> "", actual |-> "",
     type |-> ""]

\* the four throw statements (lines 39, 235, 241, 249) and what each
\* message reports
MandatoryError(name, type) ==
    [kind |-> "mandatory", name |-> name, expected |-> "", actual |-> "",
     type |-> type]

NullError(name) ==
    [kind |-> "null", name |-> name, expected |-> "", actual |-> "",
     type |-> ""]

UndefinedError(name) ==
    [kind |-> "undefined", name |-> name, expected |-> "", actual |-> "",
     type |-> ""]

TypeError(name, expected, actual) ==
    [kind |-> "type", name |-> name, expected |-> expected,
     actual |-> actual, type |-> ""]

\* _checked (lines 226-252): the error thrown, or the value returned
checked(prop, value) ==
    LET type == IF prop.type.arr THEN "array" ELSE prop.type.v[1] IN
    IF value = Null
    THEN IF prop.notNull
         THEN [err |-> NullError(prop.name), value |-> value]
         ELSE [err |-> NoError, value |-> value]
    ELSE IF value = Undefined
    THEN [err |-> UndefinedError(prop.name), value |-> value]
    ELSE IF \/ type = "string" /\ ~isString(value)
            \/ type = "boolean" /\ ~isBoolean(value)
            \/ type = "number" /\ ~isNumber(value)
            \/ type = "array" /\ ~isArray(value)
            \/ type = "id" /\ ~isString(value)
            \/ type = "object" /\ ~isObject(value)
    THEN [err |-> TypeError(prop.name, type, TypeOf(value)), value |-> value]
    ELSE [err |-> NoError, value |-> value]

\* cloneDeep left out: the default itself is handed to the instance
cloneDeepShared(arrs, value) == [arrays |-> arrs, value |-> value]

\* lodash cloneDeep (line 44): an array is copied into a new array with
\* the same content, every other value of the model is immutable
cloneDeep(arrs, value) ==
    IF value.k = "array"
    THEN [arrays |-> Append(arrs, arrs[value.v]),
          value |-> Val("array", Len(arrs) + 1)]
    ELSE [arrays |-> arrs, value |-> value]

\* props.hasOwnProperty(name) in the place of the comparison with undefined
propIsGivenOwn(props, name) == props[name] # Absent

\* props[name] !== undefined (line 35)
propIsGiven(props, name) == Read(props, name) # Undefined

\* the optional flag forgotten in the test
isMissingNoOptional(isOptional, hasDefault, given) == ~hasDefault /\ ~given

\* (!isOptional && !hasDefault) && !propIsGiven (line 38)
isMissing(isOptional, hasDefault, given) ==
    (~isOptional /\ ~hasDefault) /\ ~given

\* the body of the for loop of the constructor (lines 32-47) for one
\* schema entry; st is the instance under construction
ConstructField(h, typeName, props, st, entry) ==
    LET name == entry.name
        prop == h[entry.ref]
        given == propIsGiven(props, name)
        hasDefault == prop.hasDefault
        isOptional == prop.optional
    IN  IF isMissing(isOptional, hasDefault, given)
        THEN [st EXCEPT !.err = MandatoryError(name, typeName)]
        ELSE IF given
        THEN LET c == checked(prop, Read(props, name)) IN
             IF c.err # NoError THEN [st EXCEPT !.err = c.err]
             ELSE [st EXCEPT !.fields[name] = c.value]
        ELSE IF hasDefault
        THEN LET c == checked(prop, prop.default) IN
             IF c.err # NoError THEN [st EXCEPT !.err = c.err]
             ELSE LET d == cloneDeep(st.arrays, c.value) IN
                  [st EXCEPT !.fields[name] = d.value, !.arrays = d.arrays]
        ELSE st

RECURSIVE ConstructFrom(_, _, _, _, _, _)
ConstructFrom(h, typeName, props, schema, st, i) ==
    IF i > Len(schema) \/ st.err # NoError THEN st
    ELSE ConstructFrom(h, typeName, props, schema,
                       ConstructField(h, typeName, props, st, schema[i]),
                       i + 1)

\* the constructor Node(props) (lines 24-49) of class c: the error thrown,
\* or the own properties of the new instance
Node(classes, h, arrs, c, props) ==
    ConstructFrom(h, classes[c].type, props, classes[c].schema,
                  [err |-> NoError, fields |-> [f \in FieldNames |-> Absent],
                   arrays |-> arrs], 1)

---------------------------------------------------------------------------
(* Instance operations                                                     *)

\* Object.getPrototypeOf(NodeClass) (line 78): the constructor a class
\* extends
ClassProto(classes, c) == classes[c].super

\* getTypeNames (lines 73-81)
RECURSIVE TypeNamesFrom(_, _)
TypeNamesFrom(classes, c) ==
    IF classes[c].type = "node" THEN <<>>
    ELSE <<classes[c].type>> \o TypeNamesFrom(classes, ClassProto(classes, c))

\* the loop tests after the push: the root's tag ends the list
getTypeNamesWithRoot(classes, n) ==
    TypeNamesFrom(classes, n.cls) \o <<"node">>

getTypeNames(classes, n) == TypeNamesFrom(classes, n.cls)

\* Node.isInstanceOf (lines 139-151)
RECURSIVE isInstanceOf(_, _, _)
isInstanceOf(classes, c, typeName) ==
    IF classes[c].type = "node" THEN FALSE
    ELSE IF classes[c].type = typeName THEN TRUE
    ELSE IF classes[c].super # NoClass
    THEN isInstanceOf(classes, classes[c].super, typeName)
    ELSE FALSE

\* toJSON (lines 99-107): data.type, then data[prop.name] = this[name] for
\* each schema entry in turn
RECURSIVE JSONFrom(_, _, _, _, _)
JSONFrom(h, schema, fields, data, i) ==
    IF i > Len(schema) THEN data
    ELSE JSONFrom(h, schema, fields,
                  AssignKey(data, [name |-> h[schema[i].ref].name,
                                   value |-> Read(fields, schema[i].name)]),
                  i + 1)

toJSON(classes, h, n) ==
    [type |-> classes[n.cls].type,
     data |-> JSONFrom(h, classes[n.cls].schema, n.fields, <<>>, 1)]

---------------------------------------------------------------------------
(* Declarations as the caller writes them                                  *)

\* One entry of the raw map handed to define, [name, form, d, ref]:
\*   "string"  the bare type name d.type          a: 'string'
\*   "array"   the bare array d.type              a: ['string']
\*   "object"  a new object literal d             a: { type: ..., ... }
\*   "ref"     the existing object heap[ref]      a: someDescriptor
\*   "same"    the object of the entry before     a: d, b: d
\* A default of Val("array", 0) in d is the literal [].
RawEntry(name, form, d, ref) ==
    [name |-> name, form |-> form, d |-> d, ref |-> ref]

\* evaluating one entry of the declaration: the literals are allocated,
\* and decl keeps the declaration as it is when define is called
ResolveEntry(st, e, h0) ==
    CASE e.form \in {"string", "array"} ->
           [st EXCEPT
              !.items = Append(@, [name |-> e.name, form |-> e.form,
                                   type |-> e.d.type, ref |-> 0]),
              !.decl = Append(@, [name |-> e.name, form |-> e.form,
                                  d |-> NewDesc(e.d.type)])]
      [] e.form = "object" ->
           LET isLit == e.d.hasDefault /\ e.d.default = Val("array", 0)
               arrs == IF isLit THEN Append(st.arrays, <<>>) ELSE st.arrays
               d == IF isLit
                    THEN [e.d EXCEPT !.default = Val("array", Len(arrs))]
                    ELSE e.d
           IN  [heap |-> Append(st.heap, d),
                arrays |-> arrs,
                items |-> Append(st.items,
                                 [name |-> e.name, form |-> "object",
                                  type |-> d.type, ref |-> Len(st.heap) + 1]),
                decl |-> Append(st.decl, [name |-> e.name, form |-> "object",
                                          d |-> d])]
      [] e.form = "ref" ->
           [st EXCEPT
              !.items = Append(@, [name |-> e.name, form |-> "object",
                                   type |-> h0[e.ref].type, ref |-> e.ref]),
              !.decl = Append(@, [name |-> e.name, form |-> "object",
                                  d |-> h0[e.ref]])]
      [] e.form = "same" ->
           LET prev == st.items[Len(st.items)]
               pdecl == st.decl[Len(st.decl)]
           IN  [st EXCEPT
                  !.items = Append(@, [prev EXCEPT !.name = e.name]),
                  !.decl = Append(@, [pdecl EXCEPT !.name = e.name])]

RECURSIVE ResolveFrom(_, _, _, _)
ResolveFrom(st, raw, h0, i) ==
    IF i > Len(raw) THEN st
    ELSE ResolveFrom(ResolveEntry(st, raw[i], h0), raw, h0, i + 1)

Resolve(h, arrs, raw) ==
    ResolveFrom([heap |-> h, arrays |-> arrs, items |-> <<>>,
                 decl |-> <<>>], raw, h, 1)

\* a declaration the caller can write in the current state
WellFormedRaw(raw) ==
    /\ \A i, j \in 1..Len(raw) : raw[i].name = raw[j].name => i = j
    /\ \A i \in 1..Len(raw) :
         /\ raw[i].form = "ref" => raw[i].ref \in 1..Len(heap)
         /\ raw[i].form = "same" =>
              i > 1 /\ raw[i - 1].form \in {"object", "ref", "same"}

---------------------------------------------------------------------------
(* State and operations                                                    *)

NoProps == [f \in FieldNames |-> Absent]

Last(op, c, props, err, fields, own, node) ==
    [op |-> op, cls |-> c, props |-> props, err |-> err, fields |-> fields,
     own |-> own, node |-> node]

\* Node.define({ type: "node", id: 'string' }) (lines 117-120)
RootCompiled == compileSchema(<<>>, <<[name |-> "id", form |-> "string",
                                      type |-> Scalar("string"), ref |-> 0]>>)

Init ==
    /\ heap = RootCompiled.heap
    /\ cls = <<[type |-> "node", super |-> NoClass,
                schema |-> unfoldedSchema(<<>>, NoClass, RootCompiled.schema),
                defaultProps |-> extractDefaultProps(RootCompiled.heap,
                                                     RootCompiled.schema),
                decl |-> <<[name |-> "id", form |-> "string",
                            d |-> NewDesc(Scalar("string"))]>>]>>
    /\ arrays = <<>>
    /\ nodes = <<>>
    /\ last = Last("init", Root, NoProps, NoError, NoProps, <<>>, 0)

\* _defineSchema (lines 155-166) on a new class that extends `parent`
defineSchema(classes, h, parent, tag, items) ==
    LET compiled == compileSchema(h, items)
        schema == unfoldedSchema(classes, parent, compiled.schema)
    IN  [heap |-> compiled.heap,
         own |-> compiled.schema,
         class |-> [type |-> IF tag # "" THEN tag ELSE classes[parent].type,
                    super |-> parent,
                    schema |-> schema,
                    defaultProps |-> extractDefaultProps(compiled.heap, schema)]]

\* Parent.extend(Child); Child.define({ type: tag, ...raw }) (lines 113-115)
Define(parent, tag, raw) ==
    /\ parent \in 1..Len(cls)
    /\ WellFormedRaw(raw)
    /\ LET r == Resolve(heap, arrays, raw)
           def == defineSchema(cls, r.heap, parent, tag, r.items)
       IN  /\ cls' = Append(cls,
                  [type |-> def.class.type, super |-> def.class.super,
                   schema |-> def.class.schema,
                   defaultProps |-> def.class.defaultProps,
                   decl |-> AssignAll(cls[parent].decl, r.decl, 1)])
           /\ heap' = def.heap
           /\ arrays' = r.arrays
           /\ last' = Last("define", Len(cls) + 1, NoProps, NoError, NoProps,
                           def.own, 0)
    /\ UNCHANGED nodes

\* the array literals [] of a property bag become new arrays
RECURSIVE BagArrays(_, _, _)
BagArrays(arrs, props, names) ==
    IF names = {} THEN [arrays |-> arrs, props |-> props]
    ELSE LET f == CHOOSE x \in names : TRUE IN
         IF props[f] = Val("array", 0)
         THEN BagArrays(Append(arrs, <<>>),
                        [props EXCEPT ![f] = Val("array", Len(arrs) + 1)],
                        names \ {f})
         ELSE BagArrays(arrs, props, names \ {f})

\* new NodeClass(props) for the class c (lines 24-49).  keep: the caller
\* holds on to the instance; an instance that is not kept, or a
\* construction that throws, leaves nothing behind but `last`
Construct(c, bag, keep) ==
    /\ c \in 1..Len(cls)
    /\ LET b == BagArrays(arrays, bag, FieldNames)
           r == Node(cls, heap, b.arrays, c, b.props)
       IN  IF r.err # NoError
           THEN /\ last' = Last("new", c, b.props, r.err, NoProps, <<>>, 0)
                /\ UNCHANGED <<nodes, arrays>>
           ELSE IF keep
           THEN /\ nodes' = Append(nodes,
                       [cls |-> c, fields |-> r.fields,
                        given |-> { f \in FieldNames :
                                      propIsGiven(b.props, f) }])
                /\ arrays' = r.arrays
                /\ last' = Last("new", c, b.props, NoError, r.fields, <<>>,
                                Len(nodes) + 1)
           ELSE /\ last' = Last("new", c, b.props, NoError, r.fields, <<>>, 0)
                /\ UNCHANGED <<nodes, arrays>>
    /\ UNCHANGED <<cls, heap>>

RECURSIVE SumLen(_, _)
SumLen(arrs, i) ==
    IF i > Len(arrs) THEN Len(<<>>) ELSE Len(arrs[i]) + SumLen(arrs, i + 1)

\* node[f].push(x): the instance's array is changed in place
Push(n, f) ==
    /\ n \in 1..Len(nodes)
    /\ nodes[n].fields[f].k = "array"
    /\ SumLen(arrays, 1) < MaxPush
    /\ arrays' = [arrays EXCEPT ![nodes[n].fields[f].v] = Append(@, "x")]
    /\ last' = Last("push", nodes[n].cls, NoProps, NoError, NoProps, <<>>, n)
    /\ UNCHANGED <<cls, heap, nodes>>

---------------------------------------------------------------------------
(* Inputs                                                                  *)

Desc(type, hasDefault, default, optional, notNull) ==
    [type |-> type, hasDefault |-> hasDefault, default |-> default,
     optional |-> optional, notNull |-> notNull, name |-> "", lit |-> TRUE]

Tags == {"t1", "t2", "t3"}

AString == Val("string", 1)

ANumber == Val("number", 1)

ABoolean == Val("boolean", 1)

AnObject == Val("object", 1)

\* the array literal []
ArrayLiteral == Val("array", 0)

Bag(id, a, b) == [f \in FieldNames |->
                    CASE f = "id" -> id [] f = "a" -> a [] f = "b" -> b]

\* declarations of the registry scenario: shorthands, descriptor objects,
\* and descriptor objects used again
SchemaObjects ==
    { Desc(ArrayT(<<"string">>), TRUE, ArrayLiteral, FALSE, FALSE),
      Desc(ArrayT(<<"array", "string">>), FALSE, Undefined, FALSE, FALSE),
      Desc(Scalar("string"), FALSE, Undefined, TRUE, FALSE),
      Desc(Scalar("number"), TRUE, ANumber, FALSE, TRUE) }

SchemaEntries(name) ==
    { RawEntry(name, "string", NewDesc(Scalar(t)), 0) : t \in {"string", "text"} }
    \cup { RawEntry(name, "array", NewDesc(ArrayT(<<"string">>)), 0) }
    \cup { RawEntry(name, "object", d, 0) : d \in SchemaObjects }
    \cup { RawEntry(name, "ref", NewDesc(Scalar("string")), r) :
             r \in { x \in 1..Len(heap) : heap[x].lit } }

SchemaRaws ==
    { <<e>> : e \in SchemaEntries("a") \cup SchemaEntries("b") }
    \cup { <<e, RawEntry("b", "same", NewDesc(Scalar("string")), 0)>> :
             e \in { x \in SchemaEntries("a") : x.form \in {"object", "ref"} } }

SchemaBags ==
    { Bag(AString, a, b) : a \in {Absent, AString, ArrayLiteral},
                           b \in {Absent, AString} }

\* the registry scenario: types are defined and instantiated
Next ==
    \/ \E parent \in 1..Len(cls), tag \in {"t1"}, raw \in SchemaRaws :
         Len(cls) < MaxClasses /\ Define(parent, tag, raw)
    \/ \E c \in 1..Len(cls), bag \in SchemaBags : Construct(c, bag, FALSE)

Spec == Init /\ [][Next]_vars

\* the hierarchy scenario: tagged types without fields of their own
NextTypes ==
    \/ \E parent \in 1..Len(cls), tag \in Tags :
         Len(cls) < MaxClasses /\ Define(parent, tag, <<>>)
    \/ \E c \in 1..Len(cls) :
         Len(nodes) < MaxNodes
         /\ Construct(c, Bag(AString, Absent, Absent), TRUE)

SpecTypes == Init /\ [][NextTypes]_vars

\* the defaults scenario: types with an array default and types that
\* inherit it are registered, then instances are made, kept and changed
DefaultRaws ==
    { <<RawEntry("a", "object",
                 Desc(ArrayT(<<"string">>), TRUE, ArrayLiteral, FALSE, FALSE), 0)>>,
      <<RawEntry("b", "string", NewDesc(Scalar("text")), 0)>> }

DefaultBags ==
    { Bag(AString, a, Absent) : a \in {Absent, Undefined, ArrayLiteral} }

NextDefaults ==
    \/ \E parent \in 1..Len(cls), raw \in DefaultRaws :
         Len(cls) < MaxClasses /\ nodes = <<>> /\ Define(parent, "t1", raw)
    \/ \E c \in 1..Len(cls), bag \in DefaultBags :
         Len(nodes) < MaxNodes /\ Construct(c, bag, TRUE)
    \/ \E n \in 1..Len(nodes) : Push(n, "a")

SpecDefaults == Init /\ [][NextDefaults]_vars

\* the validation scenario: one type under Node, with one declared field
\* "a" of every kind, and property bags of every shape
CheckTypes ==
    { Scalar(t) : t \in {"string", "boolean", "number", "array", "id",
                         "object", "text"} }
    \cup { ArrayT(<<"string">>), ArrayT(<<"array", "string">>) }

CheckDescs ==
    { Desc(t, FALSE, Undefined, o, n) :
        t \in CheckTypes, o \in BOOLEAN, n \in BOOLEAN }
    \cup { Desc(t, TRUE, d, FALSE, n) :
             t \in CheckTypes, d \in {AString, Undefined}, n \in BOOLEAN }

CheckValues ==
    { Absent, Undefined, Null, AString, ABoolean, ANumber, ArrayLiteral,
      AnObject }

CheckBags ==
    { Bag(id, a, Absent) : id \in {AString, ANumber, Absent},
                           a \in CheckValues }

NextCheck ==
    \/ \E parent \in 1..Len(cls), d \in CheckDescs :
         Len(cls) = Root
         /\ Define(parent, "t1", <<RawEntry("a", "object", d, 0)>>)
    \/ \E c \in 1..Len(cls), bag \in CheckBags : Construct(c, bag, FALSE)

SpecCheck == Init /\ [][NextCheck]_vars

---------------------------------------------------------------------------
(* Vocabulary of the properties                                            *)

Names(schema) == { schema[i].name : i \in 1..Len(schema) }

\* the entry of an ordered object under a key it has
Entry(obj, name) == obj[CHOOSE i \in 1..Len(obj) : obj[i].name = name]

\* the class of the last operation, its schema and the bag it was given
LastSchema == cls[last.cls].schema

Constructed == last.op = "new"

Succeeded == last.op = "new" /\ last.err = NoError

\* the field is mandatory: no default, not optional
Mandatory(d) == ~d.hasDefault /\ ~d.optional

\* the loop of the constructor gets as far as the i-th schema entry: no
\* entry before it makes the constructor throw
Reached(i) ==
    \A j \in 1..(i - 1) :
        ConstructField(heap, cls[last.cls].type, last.props,
                       [err |-> NoError, fields |-> NoProps,
                        arrays |-> arrays], LastSchema[j]).err = NoError

\* the k-th ancestor of a class (the class itself for k = 0)
RECURSIVE Ancestor(_, _)
Ancestor(c, k) == IF k = 0 THEN c ELSE Ancestor(cls[c].super, k - 1)

RECURSIVE Depth(_)
Depth(c) == IF cls[c].super = NoClass THEN 0 ELSE 1 + Depth(cls[c].super)

Ancestors(c) == { Ancestor(c, k) : k \in 1..Depth(c) }

\* a descriptor as a schema shows it: the arrays by content
DescView(r) ==
    [type |-> heap[r].type, hasDefault |-> heap[r].hasDefault,
     default |-> IF heap[r].hasDefault /\ heap[r].default.k = "array"
                 THEN <<"array", arrays[heap[r].default.v]>>
                 ELSE <<heap[r].default.k, <<>>>>,
     optional |-> heap[r].optional, notNull |-> heap[r].notNull,
     name |-> heap[r].name]

SchemaView(c) ==
    [i \in 1..Len(cls[c].schema) |->
        [name |-> cls[c].schema[i].name, d |-> DescView(cls[c].schema[i].ref)]]

---------------------------------------------------------------------------
(* C1: mandatory fields                                                    *)

\* C1, as claimed: when the schema has a mandatory field that the property
\* bag does not supply, construction fails with the missing-mandatory
\* error naming that field; and that error never names a field that is
\* supplied, has a default or is optional.
C1_MandatoryAsClaimed ==
    Constructed =>
      /\ \A i \in 1..Len(LastSchema) :
           LET f == LastSchema[i].name
               d == heap[LastSchema[i].ref]
           IN  Mandatory(d) /\ last.props[f] = Absent =>
                 last.err = MandatoryError(f, cls[last.cls].type)
      /\ last.err.kind = "mandatory" =>
           LET f == last.err.name
               d == heap[Entry(LastSchema, f).ref]
           IN  last.props[f] = Absent /\ Mandatory(d)

\* C1, amended: when the schema has a mandatory field that the property
\* bag does not give (the key is absent, or its value is undefined),
\* construction fails and no instance is produced, and the error is the
\* missing-mandatory error naming that field whenever no earlier field of
\* the schema fails; the missing-mandatory error only ever names a
\* mandatory field of the schema that the bag does not give.
C1_Mandatory ==
    Constructed =>
      /\ \A i \in 1..Len(LastSchema) :
           LET f == LastSchema[i].name
               d == heap[LastSchema[i].ref]
           IN  Mandatory(d) /\ last.props[f] \in {Absent, Undefined} =>
                 /\ last.err # NoError
                 /\ last.fields = NoProps
                 /\ Reached(i) =>
                      last.err = MandatoryError(f, cls[last.cls].type)
      /\ last.err.kind = "mandatory" =>
           /\ last.err.name \in Names(LastSchema)
           /\ Mandatory(heap[Entry(LastSchema, last.err.name).ref])
           /\ last.props[last.err.name] \in {Absent, Undefined}
           /\ last.err.type = cls[last.cls].type

\* a construction that leaves the mandatory field "a" out and is refused
\* for it
C1_Witness ==
    /\ Constructed
    /\ last.props["a"] = Absent
    /\ last.props["id"] = AString
    /\ last.err = MandatoryError("a", "t1")

---------------------------------------------------------------------------
(* C4: explicit undefined                                                  *)

\* C4, as claimed: a property bag that carries an explicit undefined for a
\* schema field makes the construction fail with the undefined-value
\* error for that field, whatever the kind of the field (stated for the
\* fields the constructor gets to).
C4_UndefinedAsClaimed ==
    Constructed =>
      \A i \in 1..Len(LastSchema) :
          last.props[LastSchema[i].name] = Undefined /\ Reached(i) =>
            last.err = UndefinedError(LastSchema[i].name)

\* C4, amended: an explicit undefined is treated exactly as the field
\* being absent: the missing-mandatory error for a mandatory field, the
\* default for a defaulted field (the defaults drawn here are immutable
\* values, which cloneDeep returns as they are), an unset field for an
\* optional one.
\* The undefined-value error is raised for such a field only when its
\* descriptor carries a default that is itself undefined.
C4_UndefinedIsAbsent ==
    Constructed =>
      \A i \in 1..Len(LastSchema) :
          LET f == LastSchema[i].name
              d == heap[LastSchema[i].ref]
          IN  last.props[f] = Undefined =>
                /\ last.err.kind = "undefined" /\ last.err.name = f =>
                     d.hasDefault /\ d.default = Undefined
                /\ Mandatory(d) /\ Reached(i) =>
                     last.err = MandatoryError(f, cls[last.cls].type)
                /\ Succeeded /\ d.hasDefault => last.fields[f] = d.default
                /\ Succeeded /\ ~d.hasDefault => last.fields[f] = Absent

\* an explicit undefined for a defaulted field: the default is stored
C4_Witness ==
    /\ Succeeded
    /\ last.props["a"] = Undefined
    /\ last.fields["a"] = AString

---------------------------------------------------------------------------
(* C5: null and notNull                                                    *)

\* the declaration a schema field of the class comes from
Declared(c, f) == Entry(cls[c].decl, f).d

\* C5, as claimed: an explicit null for a field whose declaration sets
\* notNull fails with the null-value error, whatever the declared type;
\* for a field whose declaration does not set notNull the null is accepted
\* and stored (stated for the fields the constructor gets to).
C5_NullAsClaimed ==
    Constructed =>
      \A i \in 1..Len(LastSchema) :
          LET f == LastSchema[i].name IN
          last.props[f] = Null /\ Reached(i) =>
            IF Declared(last.cls, f).notNull
            THEN last.err = NullError(f)
            ELSE /\ last.err.name # f
                 /\ Succeeded => last.fields[f] = Null

---------------------------------------------------------------------------
(* C6: kinds and shapes                                                    *)

Shapes == {"string", "boolean", "number", "array", "object"}

\* the declared kind: "array" for both array forms
DeclaredKind(d) == IF d.type.arr THEN "array" ELSE d.type.v[1]

ShapeMatches(kind, value) ==
    CASE kind \in {"string", "id"} -> value.k = "string"
      [] kind = "boolean" -> value.k = "boolean"
      [] kind = "number" -> value.k = "number"
      [] kind = "array" -> value.k = "array"
      [] kind = "object" -> value.k = "object"

\* C6, as claimed: a value of one of the five shapes supplied for a field
\* of kind string, boolean, number, array, typed array, id or object is
\* accepted, and stored as it is, exactly when its shape matches the kind;
\* every other combination fails with the type-violation error reporting
\* the field, the expected kind and the runtime type (stated for the
\* fields the constructor gets to).
C6_ShapesAsClaimed ==
    Constructed =>
      \A i \in 1..Len(LastSchema) :
          LET f == LastSchema[i].name
              kind == DeclaredKind(Declared(last.cls, f))
              value == last.props[f]
          IN  /\ kind \in {"string", "boolean", "number", "array", "id",
                           "object"}
              /\ value.k \in Shapes
              /\ Reached(i)
              => IF ShapeMatches(kind, value)
                 THEN /\ last.err.name # f
                      /\ Succeeded => last.fields[f] = value
                 ELSE last.err = TypeError(f, kind, TypeOf(value))

---------------------------------------------------------------------------
(* C3: the unfolded schema                                                 *)

\* the schema of class c is the schema of its parent (the merge of the
\* ancestors, root first) with the compiled declarations `own` applied
\* last: every field of either, and for a name of `own` the descriptor of
\* `own`
MergeCorrect(c, own) ==
    LET parent == cls[c].super
        schema == cls[c].schema
    IN  /\ Names(schema) = Names(cls[parent].schema) \cup Names(own)
        /\ \A k \in Ancestors(c) : Names(cls[k].schema) \subseteq Names(schema)
        /\ \A i \in 1..Len(schema) :
             schema[i].ref =
               IF schema[i].name \in Names(own)
               THEN Entry(own, schema[i].name).ref
               ELSE Entry(cls[parent].schema, schema[i].name).ref

\* C3, as claimed: defining a type under a defined supertype gives it the
\* merge of its ancestors' schemas with its own compiled declarations
\* applied last, a redeclared name carrying the descendant's descriptor,
\* and leaves the schema of every ancestor as it was.
C3_UnfoldAsClaimed ==
    [][ Len(cls') > Len(cls) =>
          /\ MergeCorrect(Len(cls), last.own)'
          /\ \A k \in 1..Len(cls) :
               k \in Ancestors(Len(cls))' => SchemaView(k)' = SchemaView(k)
      ]_vars

---------------------------------------------------------------------------
(* C8: toJSON                                                              *)

\* C8, as claimed: for every constructed instance the keys of toJSON() are
\* type and every field name of the unfolded schema, no more and no
\* fewer, and the value under a field name is the instance's value of
\* that field (undefined when the field is unset).
C8_JSONAsClaimed ==
    Succeeded =>
      LET json == toJSON(cls, heap, [cls |-> last.cls, fields |-> last.fields])
      IN  /\ json.type = cls[last.cls].type
          /\ Names(json.data) = Names(LastSchema)
          /\ \A f \in Names(LastSchema) \cap Names(json.data) :
               Entry(json.data, f).value = Read(last.fields, f)

---------------------------------------------------------------------------
(* C9: defaultProps                                                        *)

\* C9, as claimed: the defaultProps of a defined type are exactly the
\* fields of its unfolded schema that carry a default, each with its
\* declared default value.
C9_DefaultPropsAsClaimed ==
    \A c \in 1..Len(cls) :
        { cls[c].defaultProps[i] : i \in 1..Len(cls[c].defaultProps) }
        = { [name |-> cls[c].schema[i].name,
             value |-> heap[cls[c].schema[i].ref].default] :
              i \in { j \in 1..Len(cls[c].schema) :
                        heap[cls[c].schema[j].ref].hasDefault } }

---------------------------------------------------------------------------
(* C10: typed arrays                                                       *)

\* the element type of a typed array declaration: of [T], and of the pair
\* ["array", T]
ElementType(type) ==
    IF Len(type.v) > 1 /\ type.v[1] = "array" THEN type.v[2] ELSE type.v[1]

\* C10, as claimed: whichever way a declaration states a typed array of
\* T (the shorthand [T], a descriptor whose type is [T], a descriptor
\* whose type is already ["array", T], also one compiled by an earlier
\* define), the compiled descriptor's type is the pair ("array", T).
C10_TypedArrayAsClaimed ==
    last.op = "define" =>
      \A i \in 1..Len(last.own) :
          LET d == Declared(last.cls, last.own[i].name) IN
          d.type.arr =>
            heap[last.own[i].ref].type
              = ArrayT(<<"array", ElementType(d.type)>>)

---------------------------------------------------------------------------
(* C7: type names                                                          *)

\* C7: for every instance, getTypeNames() is the instance's own type tag,
\* then the tag of each ancestor from the parent upwards, without the
\* root's tag "node"; and isInstanceOf(t) is true exactly of the tags in
\* getTypeNames().
C7_TypeNames ==
    \A n \in 1..Len(nodes) :
        LET c == nodes[n].cls
            names == getTypeNames(cls, nodes[n])
        IN  /\ Len(names) = Depth(c)
            /\ \A k \in 1..Depth(c) : names[k] = cls[Ancestor(c, k - 1)].type
            /\ \A k \in 1..Len(names) : names[k] # "node"
            /\ \A t \in Tags \cup {"node"} :
                 isInstanceOf(cls, c, t) <=> \E k \in 1..Len(names) : names[k] = t

\* an instance of a type two levels under Node, with two different tags
C7_Witness ==
    \E n \in 1..Len(nodes) :
        LET names == getTypeNames(cls, nodes[n]) IN
        /\ Len(names) > 1
        /\ names[1] = cls[nodes[n].cls].type
        /\ names[1] # names[Len(names)]
        /\ isInstanceOf(cls, nodes[n].cls, names[Len(names)])

---------------------------------------------------------------------------
(* C2: defaults are copied                                                 *)

\* the array fields of an instance that the constructor filled from a
\* default
DefaultedArrays(n) ==
    { f \in FieldNames : f \notin nodes[n].given /\ nodes[n].fields[f].k = "array" }

\* C2: whatever instances are constructed and changed in place, (1) the
\* array default of every descriptor still is what was declared (every
\* declared array default of the scenario is the literal []), (2) an
\* array an instance got from a default is the value of no other field
\* of any instance, nor the default itself, and so an instance just
\* constructed without the field holds an array equal to the declared
\* default.
C2_DefaultsIndependent ==
    /\ \A r \in 1..Len(heap) :
         heap[r].hasDefault /\ heap[r].default.k = "array" =>
           arrays[heap[r].default.v] = <<>>
    /\ \A n \in 1..Len(nodes) : \A f \in DefaultedArrays(n) :
         /\ \A m \in 1..Len(nodes) : \A g \in FieldNames :
              (m # n \/ g # f) => nodes[m].fields[g] # nodes[n].fields[f]
         /\ \A r \in 1..Len(heap) : heap[r].default # nodes[n].fields[f]
    /\ Succeeded /\ last.node \in 1..Len(nodes) =>
         \A f \in DefaultedArrays(last.node) :
             arrays[nodes[last.node].fields[f].v] = <<>>

\* two instances filled from the same default, the second one made after
\* the first one's array was pushed onto
C2_Witness ==
    /\ Len(nodes) > 1
    /\ nodes[1].cls = nodes[Len(nodes)].cls
    /\ "a" \in DefaultedArrays(1) \cap DefaultedArrays(Len(nodes))
    /\ arrays[nodes[1].fields["a"].v] = <<"x">>
    /\ Succeeded /\ last.node = Len(nodes)

====
